---- MODULE Spec2Model ----
(***************************************************************************)
(* Model of app.py (SDG 9 aiD): a Streamlit form whose "Analyze Input"     *)
(* handler selects one payload (uploaded image first, else the entered     *)
(* text) and passes it to analyze_content, which dispatches on the         *)
(* payload type to one of two Gemini endpoints and turns every failure     *)
(* into an error string.                                                   *)
(*                                                                         *)
(* Python strings are sequences of one-character strings, so that          *)
(* str.strip, str.lower and the substring operator are computed and not    *)
(* assumed.  Python's None, where a string may also stand, is the          *)
(* sequence <<"None">>, which is no sequence of characters.                *)
(*                                                                         *)
(* Init is the state of a session after the start-up code (lines 8-27)     *)
(* has found the credential and built both model handles.                  *)
(***************************************************************************)
EXTENDS Integers, Sequences, FiniteSets, TLC

VARIABLES
    input_text,      \* value of the text_area widget (line 112)
    uploaded_image,  \* value of the file_uploader widget (line 113)
    ui_pc,           \* position of the last script run of the page
    results_area,    \* content of the st.empty() placeholder (line 121)
    analysis_input,  \* payload chosen by the handler / given to analyze_content
    input_type,      \* "None", "image" or "text" (lines 125, 132, 139)
    ac_pc,           \* position inside analyze_content
    branch,          \* branch analyze_content took for the current call
    calls,           \* generate_content requests issued by the current call
    failed_at,       \* statement of analyze_content that raised, or "none"
    exc,             \* str(e) of the exception caught on line 48, or None
    analysis_result, \* value returned by analyze_content, or None
    propagated,      \* an exception left analyze_content
    stdout,          \* text written by print on line 59, or None
    download,        \* download buttons rendered by the run (line 161)
    expander         \* images rendered inside the expander (line 153)

vars == <<input_text, uploaded_image, ui_pc, results_area, analysis_input,
          input_type, ac_pc, branch, calls, failed_at, exc, analysis_result,
          propagated, stdout, download, expander>>

uiVars == <<input_text, uploaded_image, ui_pc, results_area, input_type,
            download, expander>>

----------------------------------------------------------------------------
(* Bounds of the model *)

\* longest text the user types into the text area
MaxTextLen == 2
\* largest number of message fragments in the text of a raised exception
MaxErrParts == 2

----------------------------------------------------------------------------
(* String literals of app.py *)

None == <<"None">>

SDG9_PROMPT == "SDG9_PROMPT"

EmptyTextError == <<"E","r","r","o","r",":"," ","P","l","e","a","s","e"," ","p","r","o","v","i","d","e"," ","s","o","m","e"," ","t","e","x","t"," ","t","o"," ","a","n","a","l","y","z","e",".">>
InvalidInputError == <<"E","r","r","o","r",":"," ","I","n","v","a","l","i","d"," ","i","n","p","u","t"," ","t","y","p","e"," ","p","r","o","v","i","d","e","d",".">>
ErrorMessagePrefix == <<"A","n"," ","e","r","r","o","r"," ","o","c","c","u","r","r","e","d"," ","d","u","r","i","n","g"," ","a","n","a","l","y","s","i","s",":"," ">>
ReturnPrefix == <<"E","r","r","o","r"," ","d","u","r","i","n","g"," ","a","n","a","l","y","s","i","s","."," ","D","e","t","a","i","l","s",":"," ">>
LogPrefix == <<"G","e","m","i","n","i"," ","A","P","I"," ","E","r","r","o","r",":"," ">>

PatApiKey == <<"A","P","I"," ","k","e","y"," ","n","o","t"," ","v","a","l","i","d">>
PatBlocked == <<"c","o","n","t","e","n","t"," ","h","a","s"," ","b","e","e","n"," ","b","l","o","c","k","e","d">>
PatSafety == <<"s","a","f","e","t","y"," ","s","e","t","t","i","n","g","s">>
PatExhausted == <<"R","e","s","o","u","r","c","e"," ","h","a","s"," ","b","e","e","n"," ","e","x","h","a","u","s","t","e","d">>
PatQuota == <<"q","u","o","t","a">>
PatDeadline == <<"D","e","a","d","l","i","n","e"," ","e","x","c","e","e","d","e","d">>

CredentialHint == <<"\n","P","l","e","a","s","e"," ","c","h","e","c","k"," ","i","f"," ","y","o","u","r"," ","G","O","O","G","L","E","_","A","P","I","_","K","E","Y"," ","i","s"," ","c","o","n","f","i","g","u","r","e","d"," ","c","o","r","r","e","c","t","l","y",".">>
SafetyHint == <<"\n","T","h","e"," ","i","n","p","u","t"," ","m","a","y"," ","h","a","v","e"," ","t","r","i","g","g","e","r","e","d"," ","G","o","o","g","l","e","'","s"," ","s","a","f","e","t","y"," ","f","i","l","t","e","r","s",".">>
QuotaHint == <<"\n","A","P","I"," ","q","u","o","t","a"," ","l","i","k","e","l","y"," ","e","x","c","e","e","d","e","d","."," ","C","h","e","c","k"," ","y","o","u","r"," ","u","s","a","g","e"," ","l","i","m","i","t","s",".">>
TimeoutHint == <<"\n","T","h","e"," ","r","e","q","u","e","s","t"," ","t","i","m","e","d"," ","o","u","t","."," ","T","r","y"," ","a","g","a","i","n"," ","l","a","t","e","r",".">>

InfoImage == <<"A","n","a","l","y","z","i","n","g"," ","u","p","l","o","a","d","e","d"," ","i","m","a","g","e",".",".","."," ","P","l","e","a","s","e"," ","w","a","i","t",".">>
InfoText == <<"A","n","a","l","y","z","i","n","g"," ","t","e","x","t"," ","d","e","s","c","r","i","p","t","i","o","n",".",".","."," ","P","l","e","a","s","e"," ","w","a","i","t",".">>
WarnNoInput == <<"P","l","e","a","s","e"," ","e","n","t","e","r"," ","t","e","x","t"," ","o","r"," ","u","p","l","o","a","d"," ","a","n"," ","i","m","a","g","e"," ","f","o","r"," ","a","n","a","l","y","s","i","s",".">>
IdleHint == <<"E","n","t","e","r"," ","t","e","x","t"," ","o","r"," ","u","p","l","o","a","d"," ","a","n"," ","i","m","a","g","e"," ","a","n","d"," ","c","l","i","c","k"," ","'","A","n","a","l","y","z","e"," ","I","n","p","u","t","'",".">>
ImageErrorPrefix == <<"E","r","r","o","r"," ","p","r","o","c","e","s","s","i","n","g"," ","i","m","a","g","e",":"," ">>

DownloadLabel == <<"D","o","w","n","l","o","a","d"," ","A","n","a","l","y","s","i","s"," ","R","e","s","u","l","t">>
DownloadFileName == <<"a","n","a","l","y","s","i","s","_","r","e","s","u","l","t",".","t","x","t">>
DownloadMime == <<"t","e","x","t","/","p","l","a","i","n">>
ImageCaption == <<"A","n","a","l","y","z","e","d"," ","I","m","a","g","e">>

----------------------------------------------------------------------------
(* Python string operations used by app.py *)

Whitespace == {" ", "\t", "\n", "\r", "\f"}

RECURSIVE LStrip(_)
LStrip(s) ==
    IF s # <<>> /\ Head(s) \in Whitespace THEN LStrip(Tail(s)) ELSE s

RECURSIVE RStrip(_)
RStrip(s) ==
    IF s # <<>> /\ s[Len(s)] \in Whitespace
    THEN RStrip(SubSeq(s, 1, Len(s) - 1))
    ELSE s

\* str.strip()
Strip(s) == RStrip(LStrip(s))

UpperCase == <<"A","B","C","D","E","F","G","H","I","J","K","L","M","N","O","P","Q","R","S","T","U","V","W","X","Y","Z">>
LowerCase == <<"a","b","c","d","e","f","g","h","i","j","k","l","m","n","o","p","q","r","s","t","u","v","w","x","y","z">>

LowerChar(c) ==
    IF \E i \in DOMAIN UpperCase : UpperCase[i] = c
    THEN LowerCase[CHOOSE i \in DOMAIN UpperCase : UpperCase[i] = c]
    ELSE c

\* str.lower()
Lower(s) == [i \in 1..Len(s) |-> LowerChar(s[i])]

\* pat in s
Contains(s, pat) ==
    \E i \in 1..(Len(s) - Len(pat) + 1) : SubSeq(s, i, i + Len(pat) - 1) = pat

\* s.startswith(p), used to state properties of returned strings
StartsWith(s, p) == Len(s) >= Len(p) /\ SubSeq(s, 1, Len(p)) = p

----------------------------------------------------------------------------
(* Values *)

NoneValue == [type |-> "NoneType", val |-> <<>>]
StrValue(s) == [type |-> "str", val |-> s]
ImageValue(px) == [type |-> "Image", val |-> px]

\* texts the user can type: every string over TextChars up to MaxTextLen,
\* and two texts with other whitespace
TextChars == {" ", "f"}

RECURSIVE StringsUpTo(_)
StringsUpTo(n) ==
    IF n = 0 THEN {<<>>}
    ELSE LET shorter == StringsUpTo(n - 1)
         IN  shorter \cup {Append(s, c) : s \in shorter, c \in TextChars}

Texts == StringsUpTo(MaxTextLen) \cup {<<"\n">>, <<"\t", "f", "\n">>}

\* files the uploader accepts by extension; the third is not an image
PngFile == <<"p","n","g",":","f","a","c","t","o","r","y">>
JpgFile == <<"j","p","g",":","r","i","v","e","r">>
BadFile == <<"p","n","g",":","g","a","r","b","a","g","e">>
UploadedFiles == {PngFile, JpgFile, BadFile}

CannotIdentify == <<"c","a","n","n","o","t"," ","i","d","e","n","t","i","f","y"," ","i","m","a","g","e"," ","f","i","l","e">>

\* Image.open(io.BytesIO(image_bytes)): the decoded image, or the error raised
ImageOpen(bytes) ==
    IF bytes = PngFile THEN [ok |-> TRUE, val |-> ImageValue(<<"p","i","x","e","l","s",":","f","a","c","t","o","r","y">>)]
    ELSE IF bytes = JpgFile THEN [ok |-> TRUE, val |-> ImageValue(<<"p","i","x","e","l","s",":","r","i","v","e","r">>)]
    ELSE [ok |-> FALSE, val |-> StrValue(CannotIdentify)]

\* payloads analyze_content can be called with
Payloads ==
    {StrValue(t) : t \in Texts}
      \cup {ImageOpen(PngFile).val, ImageOpen(JpgFile).val}
      \cup {NoneValue, [type |-> "int", val |-> <<"4","2">>],
            [type |-> "bytes", val |-> PngFile]}

\* answers of the model
Replies == {<<"Y","E","S","."," ","S","m","o","k","e",".">>, <<"N","O",".">>, <<>>}

\* texts of the exceptions the endpoint raises: concatenations of fragments
Fragments ==
    { <<"A","P","I"," ","k","e","y"," ","n","o","t"," ","v","a","l","i","d">>, <<"a","p","i"," ","k","e","y"," ","n","o","t"," ","v","a","l","i","d">>,
      <<"C","o","n","t","e","n","t"," ","H","a","s"," ","B","e","e","n"," ","B","l","o","c","k","e","d">>, <<"s","a","f","e","t","y"," ","s","e","t","t","i","n","g","s">>,
      <<"R","e","s","o","u","r","c","e"," ","h","a","s"," ","b","e","e","n"," ","e","x","h","a","u","s","t","e","d">>, <<"r","e","s","o","u","r","c","e"," ","h","a","s"," ","b","e","e","n"," ","e","x","h","a","u","s","t","e","d">>,
      <<"Q","U","O","T","A">>, <<"D","e","a","d","l","i","n","e"," ","e","x","c","e","e","d","e","d">>, <<"D","E","A","D","L","I","N","E"," ","E","X","C","E","E","D","E","D">>,
      <<" ","c","o","n","n","e","c","t","i","o","n"," ","r","e","s","e","t"," ">> }

RECURSIVE Concats(_)
Concats(n) ==
    IF n = 0 THEN {<<>>}
    ELSE LET shorter == Concats(n - 1)
         IN  shorter \cup {s \o f : s \in shorter, f \in Fragments}

ErrTexts == Concats(MaxErrParts)

----------------------------------------------------------------------------
(* analyze_content, lines 30-60 *)

\* variant: whatever is not a string is taken for an image
BranchElseImage(content_input) ==
    IF content_input.type = "str"
    THEN IF Strip(content_input.val) = <<>> THEN "empty" ELSE "text"
    ELSE "image"

\* isinstance tests of lines 32 and 39, and the test of line 33
Branch(content_input) ==
    IF content_input.type = "str"
    THEN IF Strip(content_input.val) = <<>> THEN "empty" ELSE "text"
    ELSE IF content_input.type = "Image" THEN "image"
    ELSE "invalid"

\* statements of the try block that can raise, per branch
FailPoints(b) ==
    IF b = "text" THEN {"generate_content", "text"}
    ELSE IF b = "image" THEN {"generate_content", "resolve", "text"}
    ELSE {}

\* variant: the try ends after the generate_content call
GuardedCallOnly(point) == point = "generate_content"

\* the try of line 31 encloses every statement of the body
Guarded(point) == point \in {"generate_content", "resolve", "text"}

\* variant: every test of the chain lower-cases the error text
HintFolded(e) ==
    IF Contains(Lower(e), Lower(PatApiKey)) THEN CredentialHint
    ELSE IF Contains(Lower(e), PatBlocked) \/ Contains(Lower(e), PatSafety)
    THEN SafetyHint
    ELSE IF Contains(Lower(e), Lower(PatExhausted)) \/ Contains(Lower(e), PatQuota)
    THEN QuotaHint
    ELSE IF Contains(Lower(e), Lower(PatDeadline)) THEN TimeoutHint
    ELSE <<>>

\* the if/elif chain of lines 50-57
Hint(e) ==
    IF Contains(e, PatApiKey) THEN CredentialHint
    ELSE IF Contains(Lower(e), PatBlocked) \/ Contains(Lower(e), PatSafety)
    THEN SafetyHint
    ELSE IF Contains(e, PatExhausted) \/ Contains(Lower(e), PatQuota)
    THEN QuotaHint
    ELSE IF Contains(e, PatDeadline) THEN TimeoutHint
    ELSE <<>>

\* lines 49-60: the string returned by the except clause
ErrorResult(e) == ReturnPrefix \o ErrorMessagePrefix \o e \o Hint(e)

\* variant: the two model handles are exchanged
RequestSwapped(b, prompt, content_input) ==
    [endpoint |-> IF b = "text" THEN "vision_model" ELSE "text_model",
     input |-> <<prompt, content_input>>,
     stream |-> IF b = "text" THEN "default" ELSE "False"]

\* the request of line 36 or line 41
Request(b, prompt, content_input) ==
    [endpoint |-> IF b = "text" THEN "text_model" ELSE "vision_model",
     input |-> <<prompt, content_input>>,
     stream |-> IF b = "text" THEN "default" ELSE "False"]

\* entry of analyze_content up to the request: lines 30-36, 39-41, 45-46
Dispatch ==
    /\ ac_pc = "entered"
    /\ LET b == Branch(analysis_input) IN
        /\ branch' = b
        /\ CASE b = "empty" ->
                  /\ analysis_result' = EmptyTextError
                  /\ ac_pc' = "done"
                  /\ UNCHANGED calls
             [] b = "invalid" ->
                  /\ analysis_result' = InvalidInputError
                  /\ ac_pc' = "done"
                  /\ UNCHANGED calls
             [] OTHER ->
                  /\ calls' = Append(calls, Request(b, SDG9_PROMPT, analysis_input))
                  /\ ac_pc' = "requested"
                  /\ UNCHANGED analysis_result
    /\ UNCHANGED <<failed_at, exc, propagated, stdout>>
    /\ UNCHANGED uiVars
    /\ UNCHANGED analysis_input

\* the endpoint answers: lines 36-37 and 41-43 succeed
ReplyOk(r) ==
    /\ analysis_result' = r
    /\ UNCHANGED <<calls, failed_at, exc, propagated, stdout>>

\* a statement of the try block raises an exception with text e: lines 48-60
ReplyRaise(point, e) ==
    /\ failed_at' = point
    /\ UNCHANGED calls
    /\ IF Guarded(point)
       THEN /\ exc' = e
            /\ stdout' = LogPrefix \o e
            /\ analysis_result' = ErrorResult(e)
            /\ UNCHANGED propagated
       ELSE /\ propagated' = TRUE
            /\ UNCHANGED <<exc, stdout, analysis_result>>

EndpointReply ==
    /\ ac_pc = "requested"
    /\ \/ \E r \in Replies : ReplyOk(r)
       \/ \E point \in FailPoints(branch), e \in ErrTexts : ReplyRaise(point, e)
    /\ ac_pc' = "done"
    /\ UNCHANGED <<branch, analysis_input>>
    /\ UNCHANGED uiVars

----------------------------------------------------------------------------
(* The page script, lines 109-169 *)

Empty == [kind |-> "empty", body |-> <<>>]
Element(k, b) == [kind |-> k, body |-> b]

NoFile == None

\* a script run is over: Streamlit accepts the next widget event
RunOver == ui_pc \in {"idle", "stopped", "shown", "ended"}

\* what a fresh run of the script starts from (lines 121, 124-125)
ResetCall ==
    /\ ac_pc' = "off"
    /\ branch' = "none"
    /\ calls' = <<>>
    /\ failed_at' = "none"
    /\ exc' = None
    /\ analysis_result' = None
    /\ propagated' = FALSE
    /\ stdout' = None

\* a run with analyze_button False: lines 168-169
IdleRun ==
    /\ ui_pc' = "idle"
    /\ results_area' = Element("info", IdleHint)
    /\ analysis_input' = NoneValue
    /\ input_type' = "None"
    /\ download' = <<>>
    /\ expander' = <<>>
    /\ ResetCall

\* the user changes the text area; Streamlit reruns the script
EditText ==
    /\ RunOver
    /\ \E t \in Texts \ {input_text} : input_text' = t
    /\ UNCHANGED uploaded_image
    /\ IdleRun

\* the user uploads or removes a file; Streamlit reruns the script
Upload ==
    /\ RunOver
    /\ \E f \in (UploadedFiles \cup {NoFile}) \ {uploaded_image} :
          uploaded_image' = f
    /\ UNCHANGED input_text
    /\ IdleRun

\* the user clicks the download button; Streamlit reruns the script
ClickDownload ==
    /\ RunOver
    /\ download # <<>>
    /\ UNCHANGED <<input_text, uploaded_image>>
    /\ IdleRun

\* variant: line 137 without strip()
TextPresentNoStrip(t) == t # <<>>

\* the test of line 137
TextPresent(t) == Strip(t) # <<>>

\* variant: the entered text is looked at before the upload
SelectInputTextFirst(text, file) ==
    IF TextPresent(text)
    THEN [input |-> StrValue(text), type |-> "text",
          area |-> Element("info", InfoText), stop |-> FALSE]
    ELSE IF file # NoFile
         THEN IF ImageOpen(file).ok
              THEN [input |-> ImageOpen(file).val, type |-> "image",
                    area |-> Element("info", InfoImage), stop |-> FALSE]
              ELSE [input |-> NoneValue, type |-> "None",
                    area |-> Element("error", ImageErrorPrefix \o ImageOpen(file).val.val),
                    stop |-> TRUE]
         ELSE [input |-> NoneValue, type |-> "None",
               area |-> Element("warning", WarnNoInput), stop |-> TRUE]

\* variant: an upload that cannot be opened falls back to the entered text
SelectInputFallback(text, file) ==
    IF file # NoFile /\ ImageOpen(file).ok
    THEN [input |-> ImageOpen(file).val, type |-> "image",
          area |-> Element("info", InfoImage), stop |-> FALSE]
    ELSE IF TextPresent(text)
         THEN [input |-> StrValue(text), type |-> "text",
               area |-> Element("info", InfoText), stop |-> FALSE]
         ELSE [input |-> NoneValue, type |-> "None",
               area |-> Element("warning", WarnNoInput), stop |-> TRUE]

\* variant: the uploaded bytes are passed on instead of the opened image
SelectInputRawBytes(text, file) ==
    IF file # NoFile
    THEN IF ImageOpen(file).ok
         THEN [input |-> [type |-> "bytes", val |-> file], type |-> "image",
               area |-> Element("info", InfoImage), stop |-> FALSE]
         ELSE [input |-> NoneValue, type |-> "None",
               area |-> Element("error", ImageErrorPrefix \o ImageOpen(file).val.val),
               stop |-> TRUE]
    ELSE IF TextPresent(text)
         THEN [input |-> StrValue(text), type |-> "text",
               area |-> Element("info", InfoText), stop |-> FALSE]
         ELSE [input |-> NoneValue, type |-> "None",
               area |-> Element("warning", WarnNoInput), stop |-> TRUE]

\* lines 128-143: the payload, its type, the status element and whether the
\* run goes on
SelectInput(text, file) ==
    IF file # NoFile
    THEN IF ImageOpen(file).ok
         THEN [input |-> ImageOpen(file).val, type |-> "image",
               area |-> Element("info", InfoImage), stop |-> FALSE]
         ELSE [input |-> NoneValue, type |-> "None",
               area |-> Element("error", ImageErrorPrefix \o ImageOpen(file).val.val),
               stop |-> TRUE]
    ELSE IF TextPresent(text)
         THEN [input |-> StrValue(text), type |-> "text",
               area |-> Element("info", InfoText), stop |-> FALSE]
         ELSE [input |-> NoneValue, type |-> "None",
               area |-> Element("warning", WarnNoInput), stop |-> TRUE]

\* the user clicks "Analyze Input": lines 123-143
ClickAnalyze ==
    /\ RunOver
    /\ LET sel == SelectInput(input_text, uploaded_image) IN
        /\ analysis_input' = sel.input
        /\ input_type' = sel.type
        /\ results_area' = sel.area
        /\ ui_pc' = IF sel.stop THEN "stopped" ELSE "awaiting"
    /\ download' = <<>>
    /\ expander' = <<>>
    /\ ResetCall
    /\ UNCHANGED <<input_text, uploaded_image>>

\* truth value of the payload on line 146
Truthy(x) ==
    IF x.type \in {"str", "bytes"} THEN x.val # <<>>
    ELSE IF x.type = "int" THEN x.val # <<"0">>
    ELSE x.type = "Image"

\* lines 146-148: the handler calls analyze_content, or skips the block
CallDispatcher ==
    /\ ui_pc = "awaiting"
    /\ ac_pc = "off"
    /\ IF Truthy(analysis_input)
       THEN /\ ac_pc' = "entered"
            /\ UNCHANGED ui_pc
       ELSE /\ ui_pc' = "ended"
            /\ UNCHANGED ac_pc
    /\ UNCHANGED <<input_text, uploaded_image, results_area, analysis_input,
                   input_type, branch, calls, failed_at, exc, analysis_result,
                   propagated, stdout, download, expander>>

\* variant: the file is made from the stripped result
DownloadButtonStripped(result) ==
    [label |-> DownloadLabel, data |-> Strip(result),
     file_name |-> DownloadFileName, mime |-> DownloadMime]

\* the download button of lines 161-166
DownloadButton(result) ==
    [label |-> DownloadLabel, data |-> result,
     file_name |-> DownloadFileName, mime |-> DownloadMime]

\* variant: an error string is reported as an error and the run stops
ShowSuccessOnly ==
    /\ ui_pc = "awaiting"
    /\ ac_pc = "done"
    /\ IF propagated
       THEN /\ ui_pc' = "crashed"
            /\ UNCHANGED <<results_area, download, expander>>
       ELSE IF failed_at # "none"
       THEN /\ ui_pc' = "stopped"
            /\ results_area' = Element("error", analysis_result)
            /\ UNCHANGED <<download, expander>>
       ELSE /\ ui_pc' = "shown"
            /\ results_area' = Element("markdown", analysis_result)
            /\ expander' = IF input_type = "image" /\ Truthy(analysis_input)
                           THEN <<[image |-> analysis_input, caption |-> ImageCaption]>>
                           ELSE <<>>
            /\ download' = <<DownloadButton(analysis_result)>>
    /\ ac_pc' = "off"
    /\ UNCHANGED <<input_text, uploaded_image, analysis_input, input_type,
                   branch, calls, failed_at, exc, analysis_result, propagated,
                   stdout>>

\* lines 150-166: analyze_content has returned and the result is rendered;
\* an exception leaving analyze_content would end the run on line 148
Show ==
    /\ ui_pc = "awaiting"
    /\ ac_pc = "done"
    /\ IF propagated
       THEN /\ ui_pc' = "crashed"
            /\ UNCHANGED <<results_area, download, expander>>
       ELSE /\ ui_pc' = "shown"
            /\ results_area' = Element("markdown", analysis_result)
            /\ expander' = IF input_type = "image" /\ Truthy(analysis_input)
                           THEN <<[image |-> analysis_input, caption |-> ImageCaption]>>
                           ELSE <<>>
            /\ download' = <<DownloadButton(analysis_result)>>
    /\ ac_pc' = "off"
    /\ UNCHANGED <<input_text, uploaded_image, analysis_input, input_type,
                   branch, calls, failed_at, exc, analysis_result, propagated,
                   stdout>>

----------------------------------------------------------------------------
(* The session of one user *)

Init ==
    /\ input_text = <<>>
    /\ uploaded_image = NoFile
    /\ ui_pc = "idle"
    /\ results_area = Element("info", IdleHint)
    /\ analysis_input = NoneValue
    /\ input_type = "None"
    /\ ac_pc = "off"
    /\ branch = "none"
    /\ calls = <<>>
    /\ failed_at = "none"
    /\ exc = None
    /\ analysis_result = None
    /\ propagated = FALSE
    /\ stdout = None
    /\ download = <<>>
    /\ expander = <<>>

Next ==
    \/ EditText
    \/ Upload
    \/ ClickDownload
    \/ ClickAnalyze
    \/ CallDispatcher
    \/ Dispatch
    \/ EndpointReply
    \/ Show

Spec == Init /\ [][Next]_vars

\* a script run executes its statements one after the other, and the blocking
\* generate_content call returns or raises
FairSpec ==
    /\ Spec
    /\ WF_vars(CallDispatcher)
    /\ WF_vars(Dispatch)
    /\ WF_vars(EndpointReply)
    /\ WF_vars(Show)

----------------------------------------------------------------------------
(* analyze_content on its own, called with any payload *)

\* a call of analyze_content(SDG9_PROMPT, p) outside the page
DirectCall ==
    /\ ac_pc = "done"
    /\ \E p \in Payloads : analysis_input' = p
    /\ ac_pc' = "entered"
    /\ branch' = "none"
    /\ calls' = <<>>
    /\ failed_at' = "none"
    /\ exc' = None
    /\ analysis_result' = None
    /\ propagated' = FALSE
    /\ stdout' = None
    /\ UNCHANGED uiVars

DispatcherInit ==
    /\ input_text = <<>>
    /\ uploaded_image = NoFile
    /\ ui_pc = "idle"
    /\ results_area = Empty
    /\ analysis_input \in Payloads
    /\ input_type = "None"
    /\ ac_pc = "entered"
    /\ branch = "none"
    /\ calls = <<>>
    /\ failed_at = "none"
    /\ exc = None
    /\ analysis_result = None
    /\ propagated = FALSE
    /\ stdout = None
    /\ download = <<>>
    /\ expander = <<>>

DispatcherNext ==
    \/ Dispatch
    \/ EndpointReply
    \/ DirectCall

DispatcherSpec == DispatcherInit /\ [][DispatcherNext]_vars

----------------------------------------------------------------------------
(* Properties of analyze_content, checked under DispatcherSpec *)

Hints == {CredentialHint, SafetyHint, QuotaHint, TimeoutHint}

\* the call has ended in the except clause
Failed == ac_pc = "done" /\ failed_at # "none"

\* C1: whatever statement of analyze_content raises, for whatever payload,
\* no exception leaves analyze_content, and the value returned is the generic
\* prefix, then the text of the error, then nothing or one hint.
C1_FailureBecomesString ==
    /\ ~propagated
    /\ failed_at # "none" =>
         /\ ac_pc = "done"
         /\ exc # None
         /\ \E h \in Hints \cup {<<>>} :
              analysis_result = ReturnPrefix \o ErrorMessagePrefix \o exc \o h

C1_Witness ==
    /\ Failed
    /\ failed_at = "resolve"
    /\ exc = <<"D","e","a","d","l","i","n","e"," ","e","x","c","e","e","d","e","d">> \o <<" ","c","o","n","n","e","c","t","i","o","n"," ","r","e","s","e","t"," ">>
    /\ analysis_result =
         ReturnPrefix \o ErrorMessagePrefix \o exc \o TimeoutHint

\* a rule of the hint table: patterns looked for in the error text as it is,
\* patterns looked for in the lower-cased error text, and the hint
Rule(exact, folded, hint) == [exact |-> exact, folded |-> folded, hint |-> hint]

Matches(rule, e) ==
    \/ \E pat \in rule.exact : Contains(e, pat)
    \/ \E pat \in rule.folded : Contains(Lower(e), pat)

\* the hint of the first rule that matches, or no hint
FirstMatch(rules, e) ==
    IF \E i \in DOMAIN rules : Matches(rules[i], e)
    THEN LET first == CHOOSE i \in DOMAIN rules :
                         /\ Matches(rules[i], e)
                         /\ \A j \in DOMAIN rules : Matches(rules[j], e) => i <= j
         IN  rules[first].hint
    ELSE <<>>

\* the table as the claim states it: every pattern without regard to case
ClaimedRules ==
    << Rule({}, {<<"a","p","i"," ","k","e","y"," ","n","o","t"," ","v","a","l","i","d">>}, CredentialHint),
       Rule({}, {<<"c","o","n","t","e","n","t"," ","h","a","s"," ","b","e","e","n"," ","b","l","o","c","k","e","d">>, <<"s","a","f","e","t","y"," ","s","e","t","t","i","n","g","s">>}, SafetyHint),
       Rule({}, {<<"r","e","s","o","u","r","c","e"," ","h","a","s"," ","b","e","e","n"," ","e","x","h","a","u","s","t","e","d">>, <<"q","u","o","t","a">>}, QuotaHint),
       Rule({}, {<<"d","e","a","d","l","i","n","e"," ","e","x","c","e","e","d","e","d">>}, TimeoutHint) >>

\* the table with three patterns matched in their exact spelling
ExactRules ==
    << Rule({<<"A","P","I"," ","k","e","y"," ","n","o","t"," ","v","a","l","i","d">>}, {}, CredentialHint),
       Rule({}, {<<"c","o","n","t","e","n","t"," ","h","a","s"," ","b","e","e","n"," ","b","l","o","c","k","e","d">>, <<"s","a","f","e","t","y"," ","s","e","t","t","i","n","g","s">>}, SafetyHint),
       Rule({<<"R","e","s","o","u","r","c","e"," ","h","a","s"," ","b","e","e","n"," ","e","x","h","a","u","s","t","e","d">>}, {<<"q","u","o","t","a">>}, QuotaHint),
       Rule({<<"D","e","a","d","l","i","n","e"," ","e","x","c","e","e","d","e","d">>}, {}, TimeoutHint) >>

\* C2 as stated: the hint appended to the error string is that of the first
\* of the four rules that matches the error text in any letter case, and no
\* hint is appended when no rule matches.
C2_Original ==
    Failed =>
      analysis_result =
        ReturnPrefix \o ErrorMessagePrefix \o exc \o FirstMatch(ClaimedRules, exc)

\* C2 amended: at most one hint is appended, that of the first matching rule
\* in the order credential, content policy, quota, timeout, where
\* "API key not valid", "Resource has been exhausted" and "Deadline exceeded"
\* match only in that exact spelling and "content has been blocked",
\* "safety settings" and "quota" match in any letter case; no rule, no hint.
C2_Amended ==
    Failed =>
      analysis_result =
        ReturnPrefix \o ErrorMessagePrefix \o exc \o FirstMatch(ExactRules, exc)

C2_Witness ==
    /\ Failed
    /\ exc = <<"a","p","i"," ","k","e","y"," ","n","o","t"," ","v","a","l","i","d">> \o <<"Q","U","O","T","A">>
    /\ analysis_result = ReturnPrefix \o ErrorMessagePrefix \o exc \o QuotaHint

\* C3: a text payload that is not blank causes exactly one request, to the
\* text endpoint, carrying [instruction, payload]; an image payload exactly
\* one, to the vision endpoint; this also when the request fails, and no call
\* of analyze_content ever issues a second request.
C3_OneRequestToTheRightEndpoint ==
    /\ Len(calls) <= 1
    /\ ac_pc \in {"requested", "done"} =>
         /\ (analysis_input.type = "str" /\ Strip(analysis_input.val) # <<>>) =>
              /\ Len(calls) = 1
              /\ calls[1].endpoint = "text_model"
              /\ calls[1].input = <<SDG9_PROMPT, analysis_input>>
         /\ analysis_input.type = "Image" =>
              /\ Len(calls) = 1
              /\ calls[1].endpoint = "vision_model"
              /\ calls[1].input = <<SDG9_PROMPT, analysis_input>>

C3_Witness ==
    /\ Failed
    /\ failed_at = "generate_content"
    /\ analysis_input = StrValue(<<" ", "f">>)
    /\ Len(calls) = 1
    /\ calls[1].endpoint = "text_model"

\* C5: a payload that is neither a string nor an image gets the fixed string
\* "Error: Invalid input type provided." and no request is made.
C5_InvalidInputRejected ==
    analysis_input.type \notin {"str", "Image"} =>
      /\ calls = <<>>
      /\ ac_pc # "requested"
      /\ ac_pc = "done" => analysis_result = InvalidInputError

C5_Witness ==
    /\ ac_pc = "done"
    /\ analysis_input = NoneValue
    /\ analysis_result = InvalidInputError

\* analyze_content called with a blank text returns the fixed string of line
\* 34 and makes no request (the dispatcher's side of C4)
EmptyTextRejected ==
    (analysis_input.type = "str" /\ Strip(analysis_input.val) = <<>>) =>
      /\ calls = <<>>
      /\ ac_pc # "requested"
      /\ ac_pc = "done" => analysis_result = EmptyTextError

----------------------------------------------------------------------------
(* Properties of the page, checked under Spec and FairSpec *)

\* the last run of the script handled a click on "Analyze Input"
Submitted == ui_pc # "idle"

Blank(t) == \A i \in DOMAIN t : t[i] \in Whitespace

\* the upload is a file that opens as an image
ImageUploaded == uploaded_image \in {PngFile, JpgFile}

\* the submission has an input validation error
InvalidSubmission ==
    \/ uploaded_image = NoFile /\ Blank(input_text)
    \/ uploaded_image = BadFile

\* C4 as stated: blank text and no image give the string
\* "Error: Please provide some text to analyze." as the result, and no request.
C4_Original ==
    (Submitted /\ uploaded_image = NoFile /\ Blank(input_text)) =>
      /\ calls = <<>>
      /\ RunOver => \/ analysis_result = EmptyTextError
                    \/ results_area.body = EmptyTextError

\* C4 amended: blank text submitted with no image gives the warning
\* "Please enter text or upload an image for analysis." in the results area;
\* analyze_content is not called, so there is no result string, and no
\* request is made.
C4_Amended ==
    (Submitted /\ uploaded_image = NoFile /\ Blank(input_text)) =>
      /\ ui_pc = "stopped"
      /\ results_area = Element("warning", WarnNoInput)
      /\ ac_pc = "off"
      /\ branch = "none"
      /\ analysis_result = None
      /\ calls = <<>>

C4_Witness ==
    /\ ui_pc = "stopped"
    /\ uploaded_image = NoFile
    /\ input_text = <<"\n">>
    /\ results_area.body = WarnNoInput

\* C6: when an image was uploaded the payload given to analyze_content is the
\* opened image and never the entered text, whatever the text box holds; the
\* text is the payload only when no file was uploaded.
C6_ImageFirst ==
    /\ (Submitted /\ uploaded_image # NoFile) =>
         /\ analysis_input.type # "str"
         /\ \A i \in DOMAIN calls : calls[i].input[2].type = "Image"
    /\ (Submitted /\ ImageUploaded) =>
         /\ analysis_input = ImageOpen(uploaded_image).val
         /\ input_type = "image"
         /\ \A i \in DOMAIN calls : calls[i].input[2] = ImageOpen(uploaded_image).val
    /\ (Submitted /\ analysis_input.type = "str") =>
         /\ uploaded_image = NoFile
         /\ analysis_input = StrValue(input_text)

C6_Witness ==
    /\ ui_pc = "shown"
    /\ uploaded_image = PngFile
    /\ input_text = <<"f", "f">>
    /\ Len(calls) = 1
    /\ calls[1].input[2] = ImageOpen(PngFile).val

\* C7: in Result Shown the string in the results panel is the string given as
\* data to the download button of analysis_result.txt, for answers and for
\* error strings, and no download is offered in any other state.
C7_DownloadIsDisplayed ==
    /\ ui_pc = "shown" =>
         /\ Len(download) = 1
         /\ results_area.kind = "markdown"
         /\ download[1].data = results_area.body
         /\ download[1].file_name = DownloadFileName
    /\ download # <<>> =>
         /\ ui_pc = "shown"
         /\ download[1].data = results_area.body

C7_Witness ==
    /\ ui_pc = "shown"
    /\ failed_at = "text"
    /\ exc = <<" ","c","o","n","n","e","c","t","i","o","n"," ","r","e","s","e","t"," ">>
    /\ download[1].data = ReturnPrefix \o ErrorMessagePrefix \o exc
    /\ results_area.body = download[1].data

\* C8 as stated: every submission moves the page to Awaiting Result.
C8_Original == [][ClickAnalyze => ui_pc' = "awaiting"]_vars

\* C8 amended: a submission with a usable input (an upload that opens as an
\* image, or no upload and text that is not blank) moves the page from any
\* finished run to Awaiting Result, and that request ends in Result Shown,
\* which is entered only from Awaiting Result after analyze_content has
\* returned, for an error string as for an answer; a submission with an input
\* validation error stops with a message and enters neither state.
C8_Steps ==
    /\ (ClickAnalyze /\ ~InvalidSubmission) => ui_pc' = "awaiting"
    /\ (ClickAnalyze /\ InvalidSubmission) => ui_pc' = "stopped"
    /\ ui_pc' = "awaiting" => (ui_pc = "awaiting" \/ ClickAnalyze)
    /\ (ui_pc = "awaiting" /\ ui_pc' # "awaiting") => ui_pc' = "shown"
    /\ (ui_pc # "shown" /\ ui_pc' = "shown") =>
         /\ ui_pc = "awaiting"
         /\ ac_pc = "done"
         /\ analysis_result # None
         /\ results_area'.body = analysis_result

C8_Amended ==
    /\ [][C8_Steps]_vars
    /\ (ui_pc = "awaiting") ~> (ui_pc = "shown")

C8_Witness ==
    /\ ui_pc = "shown"
    /\ failed_at = "generate_content"
    /\ results_area.body = ErrorResult(exc)

\* C9: a submission with an input validation error (no image and blank text,
\* or an upload that does not open as an image) is reported in the results
\* area; analyze_content is not called, no request is made, and neither a
\* result nor a download is offered.
C9_ValidationErrorStops ==
    (Submitted /\ InvalidSubmission) =>
      /\ ui_pc = "stopped"
      /\ \/ results_area = Element("warning", WarnNoInput)
         \/ /\ results_area.kind = "error"
            /\ StartsWith(results_area.body, ImageErrorPrefix)
      /\ ac_pc = "off"
      /\ branch = "none"
      /\ calls = <<>>
      /\ analysis_result = None
      /\ download = <<>>
      /\ expander = <<>>

C9_Witness ==
    /\ ui_pc = "stopped"
    /\ uploaded_image = BadFile
    /\ input_text = <<"f">>
    /\ results_area = Element("error", ImageErrorPrefix \o CannotIdentify)

\* C10: every call of analyze_content made by the page carries one payload,
\* a text that is not blank or an opened image, never an empty string and
\* never None, so analyze_content never takes its empty-text or invalid-input
\* branch for the page.
C10_OnePayloadVariant ==
    /\ ac_pc # "off" =>
         \/ analysis_input.type = "str" /\ ~Blank(analysis_input.val)
         \/ analysis_input.type = "Image"
    /\ branch \in {"none", "text", "image"}
    /\ \A i \in DOMAIN calls :
         \/ calls[i].input[2].type = "str" /\ ~Blank(calls[i].input[2].val)
         \/ calls[i].input[2].type = "Image"

C10_Witness ==
    /\ ac_pc = "requested"
    /\ branch = "text"
    /\ analysis_input = StrValue(<<"\t", "f", "\n">>)
    /\ uploaded_image = NoFile

====
